---- MODULE Spec2Model ----
(***************************************************************************)
(* Model of the homelab-monitor dashboard (src/dashboard/main.go): the     *)
(* collector round pollAll with one goroutine per node, the probe          *)
(* fetchOnce, the Store (history / latest under sync.RWMutex), the         *)
(* scheduler (main + loop with a time.Ticker) and the HTTP read handlers,  *)
(* and of the network rate computation of the agent (src/agent/main.go).   *)
(***************************************************************************)
EXTENDS Integers, Sequences, FiniteSets, TLC

VARIABLES
  cfg,        \* State.Config after loadConfig: [HistoryLimit, Nodes]
  history,    \* State.history : map name -> slice of Sample
  latest,     \* State.latest  : map name -> Sample
  mu,         \* State.mu (sync.RWMutex): [w: writer slot, r: reader count]
  pc,         \* position of the goroutines main and loop
  cur,        \* per caller, the pollAll call in progress: [r: round, i: next node]
  wg,         \* one sync.WaitGroup counter per pollAll call (round)
  gor,        \* the live probe goroutines, keyed by <<round, node index>>
  tC,         \* the ticker channel t.C (buffer of one tick)
  now,        \* wall clock, in refresh intervals
  handler,    \* the HTTP request goroutines
  startAt,    \* history variable: clock value at the start of each round
  spawned,    \* history variable: goroutines started by each round
  returned,   \* history variable: rounds whose pollAll has returned
  committed,  \* history variable: per name, every Sample ever appended
  lastTx,     \* agent: byte counters recorded by the last computeNet
  lastRx,
  lastTime,   \* agent: time of that recording (NoTime: the zero time.Time)
  netMu,      \* agent: the sync.Mutex mu of computeNet, the request holding it
  clock,      \* agent: the node's clock, in ticks of 100 ms
  counters,   \* agent: the byte totals of the interfaces: [tx, rx]
  call,       \* agent: the computeNet call of each request: [pc, wake]
  stat        \* history variable: the last NetStat returned and its window

dashVars == <<cfg, history, latest, mu, pc, cur, wg, gor, tC, now, handler,
              startAt, spawned, returned, committed>>
agentVars == <<lastTx, lastRx, lastTime, netMu, clock, counters, call, stat>>
vars == <<dashVars, agentVars>>

----------------------------------------------------------------------------
(* Bounds of the model *)

MaxRounds == 3
MaxTicks == 1
MaxHistoryLimit == 2
NumHandlers == 1
NumRequests == 2
MaxClock == 7
\* the agent's uint64 byte counters are modelled with a reduced width: their
\* values are taken modulo CounterModulus
CounterModulus == 4

----------------------------------------------------------------------------
(* Configuration *)

DefaultHistoryLimit == 500

NodeA == [Name |-> "a", URL |-> "http://a:9876", Group |-> "lan"]
NodeB == [Name |-> "b", URL |-> "http://b", Group |-> "dmz"]
NodeDup == [Name |-> "a", URL |-> "http://a:%zz", Group |-> "lan"]

NodeLists == {<< >>, <<NodeA>>, <<NodeA, NodeB>>, <<NodeA, NodeDup>>}

\* the values the yaml file can give history_limit (0: absent or invalid)
RawConfigs == [HistoryLimit : 0..MaxHistoryLimit, Nodes : NodeLists]

loadConfig(c) ==
  IF c.HistoryLimit <= 0 THEN [c EXCEPT !.HistoryLimit = DefaultHistoryLimit]
  ELSE c

NumNodes == Len(cfg.Nodes)
NodeNames == {cfg.Nodes[i].Name : i \in 1..NumNodes}
\* rounds explored: configurations with several nodes are explored for their
\* startup round, the succession of rounds with at most one node
RoundCap == IF Len(cfg.Nodes) > 1 THEN 1 ELSE MaxRounds

UniqueNames == \A i, j \in 1..NumNodes : cfg.Nodes[i].Name = cfg.Nodes[j].Name => i = j

----------------------------------------------------------------------------
(* Data *)

\* AgentMetrics; the float64 fields are fixed-point numbers, in thousandths
ZeroNet == [TxBytesPerSec |-> 0, RxBytesPerSec |-> 0]
ZeroMetrics ==
  [Hostname |-> "", CPUPercent |-> 0, MemPercent |-> 0, UptimeSec |-> 0, Net |-> ZeroNet]
AgentPayload ==
  [Hostname |-> "a", CPUPercent |-> 37500, MemPercent |-> 52000, UptimeSec |-> 900,
   Net |-> [TxBytesPerSec |-> 1536500, RxBytesPerSec |-> 2048000]]

\* what the node can answer to GET /metrics
Responses == { [status |-> 200, body |-> "metrics"],
               [status |-> 200, body |-> "garbage"],
               [status |-> 500, body |-> "json"] }

\* elapsed milliseconds a successful probe can measure
Latencies == {12}

NoError == ""
NoOne == <<0, 0>>
NoResp == [status |-> 0, body |-> ""]
\* history variable of a probe: did fetchOnce fail, the payload its body held,
\* and the status of the response fetchOnce decoded its result from (0: none)
NoTruth == [failed |-> FALSE, payload |-> ZeroMetrics, status |-> 0]
Failed == [failed |-> TRUE, payload |-> ZeroMetrics, status |-> 0]
Fetched(am, st) == [failed |-> FALSE, payload |-> am, status |-> st]

\* url.Parse: does the node URL parse
ParseOK(url) == url \in {"http://a:9876", "http://b"}

\* json.Decoder.Decode into AgentMetrics: a metrics document, another JSON
\* document (none of the fields of AgentMetrics), or a document that breaks off
\* after the hostname (the fields read so far stay set)
Decode(body) ==
  CASE body = "metrics" -> [ok |-> TRUE, am |-> AgentPayload]
    [] body = "json"    -> [ok |-> TRUE, am |-> ZeroMetrics]
    [] OTHER            -> [ok |-> FALSE, am |-> [ZeroMetrics EXCEPT !.Hostname = "a"]]

ZeroSample(n) ==
  [Time |-> 0, Agent |-> ZeroMetrics, LatencyMs |-> 0, Error |-> NoError, Node |-> n]

Get(m, k) == IF k \in DOMAIN m THEN m[k] ELSE << >>
\* variant of Put: the value is stored under every key of the map
PutAll(m, k, v) == [x \in DOMAIN m \cup {k} |-> v]
Put(m, k, v) == [x \in DOMAIN m \cup {k} |-> IF x = k THEN v ELSE m[x]]

\* a Go slice value: nil, or a slice with its elements
NilSlice == [nil |-> TRUE, elems |-> << >>]
Slice(s) == [nil |-> FALSE, elems |-> s]
\* m[k] on a map of slices: the zero value, a nil slice, for a missing key
Index(m, k) == IF k \in DOMAIN m THEN Slice(m[k]) ELSE NilSlice

\* a response body: JSON null, a JSON array or object, or CSV records
NoDoc == [type |-> "", val |-> << >>]
JSONNull == [type |-> "null", val |-> << >>]
JSONArray(s) == [type |-> "array", val |-> s]
JSONObject(m) == [type |-> "object", val |-> m]
\* json.Encoder.Encode of a slice: a nil slice is written as null
EncodeSlice(v) == IF v.nil THEN JSONNull ELSE JSONArray(v.elems)
\* json.Encoder.Encode of a (non-nil) map
EncodeMap(m) == JSONObject(m)

Min(a, b) == IF a < b THEN a ELSE b
LastN(s, n) == SubSeq(s, Len(s) - Min(n, Len(s)) + 1, Len(s))

----------------------------------------------------------------------------
(* The agent's globals (src/agent/main.go) *)

\* the zero time.Time, for which IsZero() holds; the clock starts after it
NoTime == 0
Requests == 1..NumRequests
NoStat == [valid |-> FALSE]
NotCalling == [pc |-> "idle", wake |-> 0]

ZeroCounters == [tx |-> 0, rx |-> 0]
\* the agent at start, the interface totals being one of cs: nothing
\* recorded, mu free, no request in computeNet
AgentInitWith(cs) ==
  /\ lastTx = 0
  /\ lastRx = 0
  /\ lastTime = NoTime
  /\ netMu = 0
  /\ clock = 1
  /\ counters \in cs
  /\ call = [c \in Requests |-> NotCalling]
  /\ stat = NoStat

----------------------------------------------------------------------------
Idle == [pc |-> "idle", kind |-> "", node |-> "", resp |-> NoDoc]

\* the state at the start of main, for the configuration files cs and the
\* wall clock t
InitWith(cs, t) ==
  /\ AgentInitWith({ZeroCounters})
  /\ cfg \in {loadConfig(c) : c \in cs}
  /\ history = << >>
  /\ latest = << >>
  /\ mu = [w |-> NoOne, r |-> 0]
  /\ pc = [main |-> "call", loop |-> "off"]
  /\ cur = [main |-> [r |-> 0, i |-> 0], loop |-> [r |-> 0, i |-> 0]]
  /\ wg = << >>
  /\ gor = << >>
  /\ tC = 0
  /\ now = t
  /\ handler = [h \in 1..NumHandlers |-> Idle]
  /\ startAt = << >>
  /\ spawned = << >>
  /\ returned = {}
  /\ committed = [n \in {"a", "b"} |-> << >>]

Init == InitWith(RawConfigs, 0)

----------------------------------------------------------------------------
(* pollAll: the caller c ("main" or "loop") runs one round *)

\* entry of pollAll: a fresh WaitGroup, about to range over Config.Nodes
PollEnter(c) ==
  /\ Len(startAt) < RoundCap
  /\ cur' = [cur EXCEPT ![c] = [r |-> Len(startAt) + 1, i |-> 1]]
  /\ wg' = Append(wg, 0)
  /\ startAt' = Append(startAt, now)
  /\ spawned' = Append(spawned, 0)

NewGoroutine(n) ==
  [pc |-> "parse", n |-> n, resp |-> NoResp,
   am |-> ZeroMetrics, lat |-> 0, err |-> NoError,
   samp |-> ZeroSample(n), truth |-> NoTruth]

\* one iteration of the for loop: wg.Add(1); go func() {...}()
PollSpawn(c) ==
  LET r == cur[c].r
      i == cur[c].i
  IN /\ pc[c] = "for"
     /\ i <= NumNodes
     /\ wg' = [wg EXCEPT ![r] = @ + 1]
     /\ gor' = (<<r, i>> :> NewGoroutine(cfg.Nodes[i])) @@ gor
     /\ cur' = [cur EXCEPT ![c].i = i + 1]
     /\ spawned' = [spawned EXCEPT ![r] = @ + 1]
     /\ UNCHANGED <<agentVars, cfg, history, latest, mu, pc, tC, now, handler,
                    startAt, returned, committed>>

\* the range is exhausted: the caller blocks in wg.Wait()
PollRangeDone(c) ==
  /\ pc[c] = "for"
  /\ cur[c].i > NumNodes
  /\ pc' = [pc EXCEPT ![c] = "wait"]
  /\ UNCHANGED <<agentVars, cfg, history, latest, mu, cur, wg, gor, tC, now, handler,
                 startAt, spawned, returned, committed>>

\* variant of WaitDone: pollAll returns without waiting for its goroutines
WaitSkipped(r) == TRUE
WaitDone(r) == wg[r] = 0

\* wg.Wait() returns, and pollAll with it
PollWait(c) ==
  /\ pc[c] = "wait"
  /\ WaitDone(cur[c].r)
  /\ pc' = [pc EXCEPT ![c] = IF c = "main" THEN "go" ELSE "recv"]
  /\ returned' = returned \cup {cur[c].r}
  /\ UNCHANGED <<agentVars, cfg, history, latest, mu, cur, wg, gor, tC, now, handler,
                 startAt, spawned, committed>>

----------------------------------------------------------------------------
(* main and loop *)

\* main: st.pollAll(), the first poll to populate
MainPoll ==
  /\ pc["main"] = "call"
  /\ PollEnter("main")
  /\ pc' = [pc EXCEPT !["main"] = "for"]
  /\ UNCHANGED <<agentVars, cfg, history, latest, mu, gor, tC, now, handler,
                 returned, committed>>

\* variant of StartupDone: the first poll is not awaited (go st.pollAll())
StartupNotAwaited == pc["main"] \in {"wait", "go"}
\* main has come back from the first st.pollAll()
StartupDone == pc["main"] = "go"

\* main: go st.loop()
MainGo ==
  /\ StartupDone
  /\ pc' = [pc EXCEPT !["main"] = "listen", !["loop"] = "ticker"]
  /\ UNCHANGED <<agentVars, cfg, history, latest, mu, cur, wg, gor, tC, now, handler,
                 startAt, spawned, returned, committed>>

\* main: the mux is set up and srv.ListenAndServe() accepts requests
MainListen ==
  /\ pc["main"] = "listen"
  /\ pc' = [pc EXCEPT !["main"] = "serve"]
  /\ UNCHANGED <<agentVars, cfg, history, latest, mu, cur, wg, gor, tC, now, handler,
                 startAt, spawned, returned, committed>>

\* loop: time.NewTicker, then the first iteration calls s.pollAll()
LoopStart ==
  /\ pc["loop"] = "ticker"
  /\ PollEnter("loop")
  /\ tC' = 0
  /\ pc' = [pc EXCEPT !["loop"] = "for"]
  /\ UNCHANGED <<agentVars, cfg, history, latest, mu, gor, now, handler,
                 returned, committed>>

\* loop: <-t.C receives the buffered tick, the next iteration calls s.pollAll()
LoopRecv ==
  /\ pc["loop"] = "recv"
  /\ tC = 1
  /\ PollEnter("loop")
  /\ tC' = 0
  /\ pc' = [pc EXCEPT !["loop"] = "for"]
  /\ UNCHANGED <<agentVars, cfg, history, latest, mu, gor, now, handler,
                 returned, committed>>

TickerRunning == pc["loop"] \notin {"off", "ticker"}

\* one refresh interval elapses: the wall clock advances and the ticker, if
\* created, sends on t.C without blocking (the tick is dropped when t.C is full)
Tick ==
  /\ now < MaxTicks
  /\ now' = now + 1
  /\ tC' = IF TickerRunning THEN 1 ELSE tC
  /\ UNCHANGED <<agentVars, cfg, history, latest, mu, pc, cur, wg, gor, handler,
                 startAt, spawned, returned, committed>>

----------------------------------------------------------------------------
(* fetchOnce, run by the goroutine id = <<round, node index>> *)

DialTimeoutMs == 1500
ClientTimeoutMs == 3000
CtxTimeoutMs == 4000

\* the earlier of two timers, a timer of 0 being unarmed (0: none is armed)
Budget(a, b) == IF a = 0 THEN b ELSE IF b = 0 THEN a ELSE Min(a, b)

\* variant of DialBudget: a dialer without Timeout under a context without deadline
NoDialBudget == Budget(0, 0)
\* time after which the dial, resp. the HTTP exchange, is abandoned (0: never)
DialBudget == Budget(DialTimeoutMs, CtxTimeoutMs)
FetchBudget == Budget(ClientTimeoutMs, CtxTimeoutMs)

\* return AgentMetrics{}, 0, err
Failure(e) == [am |-> ZeroMetrics, lat |-> 0, err |-> e]

\* variant of DecodeResult: the partly decoded value is returned with the error
DecodeResultPartial(d, lat) ==
  IF d.ok THEN [am |-> d.am, lat |-> lat, err |-> NoError]
  ELSE [am |-> d.am, lat |-> 0, err |-> "invalid character"]

\* the end of fetchOnce, after Decode
DecodeResult(d, lat) ==
  IF d.ok THEN [am |-> d.am, lat |-> lat, err |-> NoError]
  ELSE Failure("invalid character")

\* fetchOnce returns ret; the goroutine goes on to s.mu.Lock()
Return(id, ret, truth) ==
  gor' = [gor EXCEPT ![id] = [@ EXCEPT !.pc = "lock", !.resp = NoResp, !.am = ret.am,
                                       !.lat = ret.lat, !.err = ret.err, !.truth = truth]]

FetchFrame == <<agentVars, cfg, history, latest, mu, pc, cur, wg, tC, now, handler,
                startAt, spawned, returned, committed>>

FetchParse(id) ==
  /\ id \in DOMAIN gor
  /\ gor[id].pc = "parse"
  /\ IF ParseOK(gor[id].n.URL)
       THEN gor' = [gor EXCEPT ![id].pc = "dial"]
       ELSE Return(id, Failure("invalid port"), Failed)
  /\ UNCHANGED FetchFrame

\* the node accepts the connection
DialOk(id) ==
  /\ id \in DOMAIN gor
  /\ gor[id].pc = "dial"
  /\ gor' = [gor EXCEPT ![id].pc = "http"]
  /\ UNCHANGED FetchFrame

\* the node refuses the connection, or is unreachable
DialFail(id) ==
  /\ id \in DOMAIN gor
  /\ gor[id].pc = "dial"
  /\ Return(id, Failure("connection refused"), Failed)
  /\ UNCHANGED FetchFrame

\* the dial gets no answer within its budget
DialTimeout(id) ==
  /\ id \in DOMAIN gor
  /\ gor[id].pc = "dial"
  /\ DialBudget > 0
  /\ Return(id, Failure("i/o timeout"), Failed)
  /\ UNCHANGED FetchFrame

\* client.Do returns a response
HttpResponse(id, resp) ==
  /\ id \in DOMAIN gor
  /\ gor[id].pc = "http"
  /\ gor' = [gor EXCEPT ![id].pc = "decode", ![id].resp = resp]
  /\ UNCHANGED FetchFrame

\* client.Do fails (connection reset, bad scheme, ...)
HttpFail(id) ==
  /\ id \in DOMAIN gor
  /\ gor[id].pc = "http"
  /\ Return(id, Failure("connection reset"), Failed)
  /\ UNCHANGED FetchFrame

\* no response within the budget
HttpTimeout(id) ==
  /\ id \in DOMAIN gor
  /\ gor[id].pc = "http"
  /\ FetchBudget > 0
  /\ Return(id, Failure("i/o timeout"), Failed)
  /\ UNCHANGED FetchFrame

\* the body has arrived and is decoded
DecodeBody(id, lat) ==
  LET d == Decode(gor[id].resp.body)
  IN /\ id \in DOMAIN gor
     /\ gor[id].pc = "decode"
     /\ Return(id, DecodeResult(d, lat), IF d.ok THEN Fetched(d.am, gor[id].resp.status) ELSE Failed)
     /\ UNCHANGED FetchFrame

\* the body stalls: the read fails when the budget is spent
BodyTimeout(id) ==
  /\ id \in DOMAIN gor
  /\ gor[id].pc = "decode"
  /\ FetchBudget > 0
  /\ Return(id, Failure("i/o timeout"), Failed)
  /\ UNCHANGED FetchFrame

----------------------------------------------------------------------------
(* the commit: the rest of the goroutine of pollAll, under s.mu.Lock() *)

\* sync.RWMutex: Lock() takes the writer slot when no other writer has it,
\* which keeps new readers out, then waits for the active readers to leave
\* variant of WriterSlotFree: the commits are held back until every probe of
\* the round has returned
WriterSlotAfterProbes ==
  /\ mu.w = NoOne
  /\ \A k \in DOMAIN gor : gor[k].pc \notin {"parse", "dial", "http", "decode"}
WriterSlotFree == mu.w = NoOne
ReadersGone == mu.r = 0
\* variant of RLockFree: the handlers read without taking the lock
RLockSkipped == TRUE
\* variant of RLockFree: readers are kept out only once the writer has the
\* lock, not while it waits for the active readers to leave
RLockPastWaitingWriter ==
  mu.w = NoOne \/ (mu.w \in DOMAIN gor /\ gor[mu.w].pc = "drain")
\* RLock() is granted when no writer holds or awaits the lock
RLockFree == mu.w = NoOne

\* err.Error(): the message of a non-nil error, never empty (its wording is
\* not modelled)
ErrorText(e) == "probe failed"

\* variant of MakeSample: the Sample of a failed probe is left with the zero
\* time
MakeSampleUnstamped(g, t) ==
  [Time |-> IF g.err # NoError THEN 0 ELSE t, Agent |-> g.am, LatencyMs |-> g.lat,
   Error |-> IF g.err # NoError THEN ErrorText(g.err) ELSE "", Node |-> g.n]
\* samp := Sample{...}; if err != nil { samp.Error = err.Error() }
MakeSample(g, t) ==
  [Time |-> t, Agent |-> g.am, LatencyMs |-> g.lat,
   Error |-> IF g.err # NoError THEN ErrorText(g.err) ELSE "", Node |-> g.n]

\* variants of Trim: no trimming; the oldest entries kept (h[:limit]); one
\* entry too many dropped (h[len(h)-limit+1:])
TrimNever(h, limit) == h
TrimKeepsOldest(h, limit) ==
  IF Len(h) > limit THEN SubSeq(h, 1, limit) ELSE h
TrimOneTooMany(h, limit) ==
  IF Len(h) > limit THEN SubSeq(h, Len(h) - limit + 2, Len(h)) ELSE h

\* if len(h) > limit { h = h[len(h)-limit:] }
Trim(h, limit) ==
  IF Len(h) > limit THEN SubSeq(h, Len(h) - limit + 1, Len(h)) ELSE h

CommitFrame == <<agentVars, cfg, pc, cur, tC, now, handler, startAt, spawned, returned>>

\* s.mu.Lock() is called; it returns at once when no reader holds the lock
MuLock(id) ==
  /\ id \in DOMAIN gor
  /\ gor[id].pc = "lock"
  /\ WriterSlotFree
  /\ mu' = [mu EXCEPT !.w = id]
  /\ gor' = [gor EXCEPT ![id].pc = IF ReadersGone THEN "append" ELSE "drain"]
  /\ UNCHANGED <<history, latest, wg, committed>>
  /\ UNCHANGED CommitFrame

\* the last reader has left: s.mu.Lock() returns
MuLocked(id) ==
  /\ id \in DOMAIN gor
  /\ gor[id].pc = "drain"
  /\ ReadersGone
  /\ gor' = [gor EXCEPT ![id].pc = "append"]
  /\ UNCHANGED <<history, latest, mu, wg, committed>>
  /\ UNCHANGED CommitFrame

\* the Sample is built, appended to the node's history and the history trimmed
\* (the results of fetchOnce are not read after this step)
CommitHistory(id) ==
  LET g == gor[id]
      samp == MakeSample(g, now)
      h == Append(Get(history, g.n.Name), samp)
  IN /\ id \in DOMAIN gor
     /\ g.pc = "append"
     /\ history' = Put(history, g.n.Name, Trim(h, cfg.HistoryLimit))
     /\ gor' = [gor EXCEPT ![id] = [NewGoroutine(g.n) EXCEPT !.pc = "latest", !.samp = samp]]
     /\ committed' = [committed EXCEPT ![g.n.Name] =
                        Append(@, [r |-> id[1], i |-> id[2], samp |-> samp,
                                   truth |-> g.truth])]
     /\ UNCHANGED <<latest, mu, wg>>
     /\ UNCHANGED CommitFrame

\* s.latest[n.Name] = samp, then the deferred s.mu.Unlock()
CommitLatest(id) ==
  LET g == gor[id]
  IN /\ id \in DOMAIN gor
     /\ g.pc = "latest"
     /\ latest' = Put(latest, g.n.Name, g.samp)
     /\ mu' = [mu EXCEPT !.w = NoOne]
     /\ gor' = [gor EXCEPT ![id] = [NewGoroutine(g.n) EXCEPT !.pc = "done"]]
     /\ UNCHANGED <<history, wg, committed>>
     /\ UNCHANGED CommitFrame

\* the deferred cancel() and wg.Done(); the goroutine ends
GoDone(id) ==
  /\ id \in DOMAIN gor
  /\ gor[id].pc = "done"
  /\ wg' = [wg EXCEPT ![id[1]] = @ - 1]
  /\ gor' = [k \in DOMAIN gor \ {id} |-> gor[k]]
  /\ UNCHANGED <<history, latest, mu, committed>>
  /\ UNCHANGED CommitFrame

----------------------------------------------------------------------------
(* the HTTP handlers, each under s.mu.RLock() until its response is written *)

\* variant of ServerUp: the server listens before the first poll
ServerUpAtLaunch == TRUE
ServerUp == pc["main"] = "serve"

\* the node parameters a client asks /api/history for
Queries == {"a"}

RECURSIVE LatestRows(_)
\* for _, n := range s.Config.Nodes { if samp, ok := s.latest[n.Name]; ok {...} }
LatestRows(i) ==
  IF i = 0 THEN << >>
  ELSE LET n == cfg.Nodes[i]
       IN IF n.Name \in DOMAIN latest
            THEN Append(LatestRows(i - 1), [Sample |-> latest[n.Name], Group |-> n.Group])
            ELSE LatestRows(i - 1)

\* variant of Rows: the nodes whose latest probe failed are left out
RowsOfUpNodes ==
  LET rows == SelectSeq(LatestRows(NumNodes), LAMBDA row : row.Sample.Error = "")
  IN IF rows = << >> THEN NilSlice ELSE Slice(rows)
\* var rows []Row, filled by append: nil as long as nothing was appended
Rows == LET rows == LatestRows(NumNodes)
        IN IF rows = << >> THEN NilSlice ELSE Slice(rows)

HandlerFrame == <<agentVars, cfg, history, latest, pc, cur, wg, gor, tC, now,
                  startAt, spawned, returned, committed>>

handleLatest(h) ==
  /\ ServerUp
  /\ handler[h].pc = "idle"
  /\ RLockFree
  /\ mu' = [mu EXCEPT !.r = @ + 1]
  /\ handler' = [handler EXCEPT ![h] =
                   [pc |-> "write", kind |-> "latest", node |-> "",
                    resp |-> EncodeSlice(Rows)]]
  /\ UNCHANGED HandlerFrame

handleHistory(h, name) ==
  /\ ServerUp
  /\ handler[h].pc = "idle"
  /\ RLockFree
  /\ mu' = [mu EXCEPT !.r = @ + 1]
  /\ handler' = [handler EXCEPT ![h] =
                   [pc |-> "write", kind |-> "history", node |-> name,
                    resp |-> IF name # "" THEN EncodeSlice(Index(history, name))
                                           ELSE EncodeMap(history)]]
  /\ UNCHANGED HandlerFrame

\* the response is written; the deferred s.mu.RUnlock()
HandlerReturn(h) ==
  /\ handler[h].pc = "write"
  /\ mu' = [mu EXCEPT !.r = @ - 1]
  /\ handler' = [handler EXCEPT ![h] = Idle]
  /\ UNCHANGED HandlerFrame

----------------------------------------------------------------------------
Callers == {"main", "loop"}
Handlers == 1..NumHandlers

Next ==
  \/ MainPoll
  \/ MainGo
  \/ MainListen
  \/ LoopStart
  \/ LoopRecv
  \/ Tick
  \/ \E c \in Callers : PollSpawn(c)
  \/ \E c \in Callers : PollRangeDone(c)
  \/ \E c \in Callers : PollWait(c)
  \/ \E id \in DOMAIN gor : FetchParse(id)
  \/ \E id \in DOMAIN gor : DialOk(id)
  \/ \E id \in DOMAIN gor : DialFail(id)
  \/ \E id \in DOMAIN gor : DialTimeout(id)
  \/ \E id \in DOMAIN gor : \E resp \in Responses : HttpResponse(id, resp)
  \/ \E id \in DOMAIN gor : HttpFail(id)
  \/ \E id \in DOMAIN gor : HttpTimeout(id)
  \/ \E id \in DOMAIN gor : \E lat \in Latencies : DecodeBody(id, lat)
  \/ \E id \in DOMAIN gor : BodyTimeout(id)
  \/ \E id \in DOMAIN gor : MuLock(id)
  \/ \E id \in DOMAIN gor : MuLocked(id)
  \/ \E id \in DOMAIN gor : CommitHistory(id)
  \/ \E id \in DOMAIN gor : CommitLatest(id)
  \/ \E id \in DOMAIN gor : GoDone(id)
  \/ \E h \in Handlers : handleLatest(h)
  \/ \E h \in Handlers : \E name \in Queries : handleHistory(h, name)
  \/ \E h \in Handlers : HandlerReturn(h)

Spec == Init /\ [][Next]_vars

\* every goroutine that can run does run; a timer that is armed fires unless
\* the awaited event comes first; a goroutine blocked in Lock() gets the writer
\* slot when it is free again and again; every response is written in the end;
\* time passes.  Nothing is assumed of the nodes nor of the clients' requests.
GoIds == {id \in (1..MaxRounds) \X (1..2) : id[1] = 1 \/ id[2] = 1}

Fairness ==
  /\ WF_vars(MainPoll) /\ WF_vars(MainGo) /\ WF_vars(MainListen)
  /\ WF_vars(LoopStart) /\ WF_vars(LoopRecv) /\ WF_vars(Tick)
  /\ \A c \in Callers :
        WF_vars(PollSpawn(c)) /\ WF_vars(PollRangeDone(c)) /\ WF_vars(PollWait(c))
  /\ \A id \in GoIds :
        /\ WF_vars(FetchParse(id))
        /\ WF_vars(DialTimeout(id))
        /\ WF_vars(HttpTimeout(id))
        /\ WF_vars(BodyTimeout(id))
        /\ SF_vars(MuLock(id))
        /\ WF_vars(MuLocked(id))
        /\ WF_vars(CommitHistory(id))
        /\ WF_vars(CommitLatest(id))
        /\ WF_vars(GoDone(id))
  /\ \A h \in Handlers : WF_vars(HandlerReturn(h))

\* the configurations of the termination properties: history_limit 1, one or two
\* nodes; the run starts one interval before the end of the modelled time
FairConfigs == {c \in RawConfigs : c.HistoryLimit = 1 /\ c.Nodes \in {<<NodeA>>, <<NodeA, NodeB>>}}
FairInit == InitWith(FairConfigs, MaxTicks - 1)

FairSpec == FairInit /\ [][Next]_vars /\ Fairness

----------------------------------------------------------------------------
(* Properties of the Store *)

Names == DOMAIN committed
Samples(log) == [k \in 1..Len(log) |-> log[k].samp]
\* the log entries of the goroutine <<r, i>>
EntriesOf(r, i) ==
  UNION {{<<n, k>> : k \in {j \in 1..Len(committed[n]) :
                                committed[n][j].r = r /\ committed[n][j].i = i}} :
         n \in Names}
\* the Samples the name n gained from round r
GainedIn(n, r) == {k \in 1..Len(committed[n]) : committed[n][k].r = r}

\* C1: in every reachable state, every node's history holds at most
\* HistoryLimit Samples
C1_HistoryBounded ==
  \A n \in DOMAIN history : Len(history[n]) <= cfg.HistoryLimit

\* a commit at capacity has evicted: more Samples committed than retained
C1_Witness ==
  \E n \in DOMAIN history :
     /\ Len(committed[n]) > cfg.HistoryLimit
     /\ Len(history[n]) = cfg.HistoryLimit

\* C2: a node's history is exactly the most recent min(k, HistoryLimit) of the
\* k Samples committed for it, in commit order, oldest first
C2_RecentWindow ==
  \A n \in Names :
     Get(history, n) = LastN(Samples(committed[n]), cfg.HistoryLimit)

\* three rounds against one node with HistoryLimit = 2 leave the (pairwise
\* different) Samples of rounds 2 and 3
C2_Witness ==
  /\ cfg.HistoryLimit = 2
  /\ Len(committed["a"]) = 3
  /\ \A j, k \in 1..3 : j # k => committed["a"][j].samp # committed["a"][k].samp
  /\ history["a"] = <<committed["a"][2].samp, committed["a"][3].samp>>

\* the states a reader can observe: no commit is inside its critical section,
\* or a reader holds the read lock
Observable == mu.w = NoOne \/ mu.r > 0

\* C3: after every commit and in every state a reader can observe, latest[name]
\* exists exactly when history[name] is non-empty and is its last element
C3_LatestIsTail ==
  Observable =>
    \A n \in Names :
       /\ n \in DOMAIN latest <=> Get(history, n) # << >>
       /\ n \in DOMAIN latest => latest[n] = history[n][Len(history[n])]

\* a reader holds the lock on a populated Store while a commit waits for it
C3_Witness ==
  /\ \E h \in DOMAIN handler : handler[h].pc = "write"
  /\ \E id \in DOMAIN gor : gor[id].pc = "drain"
  /\ latest # << >>

\* C4: the length of a node's history never decreases from one state to the
\* next, also across a commit that evicts at capacity
C4_NeverShrinks ==
  [][\A n \in Names : Len(Get(history', n)) >= Len(Get(history, n))]_vars

\* a reader reads a history that is at capacity after an eviction
C4_Witness ==
  \E h \in DOMAIN handler :
     /\ handler[h].pc = "write"
     /\ handler[h].kind = "history"
     /\ handler[h].node = "a"
     /\ Len(handler[h].resp.val) = cfg.HistoryLimit
     /\ Len(committed["a"]) > cfg.HistoryLimit

----------------------------------------------------------------------------
(* Properties of the Collector and the Scheduler *)

\* C5: a round starts one probe per configured node and returns only when each
\* of them has committed its Sample: every node has gained exactly one Sample
\* of the round (names unique), none of its goroutines is left
C5_RoundComplete ==
  /\ \A r \in 1..Len(spawned) : spawned[r] <= NumNodes
  /\ \A r \in returned :
        /\ spawned[r] = NumNodes
        /\ \A i \in 1..NumNodes :
              /\ <<r, i>> \notin DOMAIN gor
              /\ Cardinality(EntriesOf(r, i)) = 1
              /\ UniqueNames => Cardinality(GainedIn(cfg.Nodes[i].Name, r)) = 1

\* a round over two nodes has returned, one probe failed and one succeeded
C5_Witness ==
  /\ 1 \in returned
  /\ UniqueNames
  /\ NumNodes = 2
  /\ committed["a"][1].truth.failed
  /\ ~committed["b"][1].truth.failed

\* C6: rounds never overlap: when a round starts, every earlier round has
\* returned, all its Samples are committed and none of its goroutines is
\* left; so each node's Samples are committed in the order of the rounds
C6_NoOverlap ==
  /\ \A r \in 2..Len(startAt) :
        /\ (r - 1) \in returned
        /\ \A i \in 1..NumNodes : Cardinality(EntriesOf(r - 1, i)) = 1
  /\ \A id \in DOMAIN gor : id[1] = Len(startAt)
  /\ \A n \in Names : \A j, k \in 1..Len(committed[n]) :
        j < k => committed[n][j].r <= committed[n][k].r

\* the second round committed a full interval or more after it had started,
\* and the third round has started and committed after it
C6_Witness ==
  /\ Len(startAt) = 3
  /\ Len(committed["a"]) = 3
  /\ committed["a"][2].samp.Time > startAt[2]
  /\ committed["a"][3].r = 3

\* C7: no request is served before the startup round has returned; at any
\* served request every configured node has a committed Sample
C7_ServedAfterStartup ==
  (pc["main"] = "serve" \/ \E h \in DOMAIN handler : handler[h].pc # "idle") =>
     /\ 1 \in returned
     /\ \A i \in 1..NumNodes :
           /\ cfg.Nodes[i].Name \in DOMAIN latest
           /\ Get(history, cfg.Nodes[i].Name) # << >>

\* /api/latest is being served with one row for each of two nodes
C7_Witness ==
  /\ NumNodes = 2
  /\ UniqueNames
  /\ \E h \in DOMAIN handler :
        /\ handler[h].pc = "write"
        /\ handler[h].kind = "latest"
        /\ Len(handler[h].resp.val) = 2

\* C8: every round after the startup round is started by a tick: the step
\* that starts it receives a tick from t.C
C8_RoundsStartOnTick ==
  [][(Len(startAt') > Len(startAt) /\ Len(startAt) >= 1) => (tC = 1 /\ tC' = 0)]_vars

\* C10: every probe yields exactly one committed Sample; a failed probe's
\* Sample has a non-empty error and a zero payload, a successful probe's
\* Sample has no error and the decoded payload
C10_ProbeOutcome ==
  /\ \A n \in Names : \A k \in 1..Len(committed[n]) :
        LET e == committed[n][k]
        IN /\ e.truth.failed => e.samp.Error # "" /\ e.samp.Agent = ZeroMetrics
           /\ ~e.truth.failed => e.samp.Error = "" /\ e.samp.Agent = e.truth.payload
           /\ Cardinality(EntriesOf(e.r, e.i)) = 1
  /\ \A r \in returned : \A i \in 1..NumNodes : EntriesOf(r, i) # {}

\* one node has committed a failure, a success with the metrics payload and
\* a success whose body held none of the metrics fields
C10_Witness ==
  /\ Len(committed["a"]) = 3
  /\ \E j, k, l \in 1..3 :
        /\ committed["a"][j].truth.failed
        /\ committed["a"][k].samp.Agent = AgentPayload
        /\ ~committed["a"][l].truth.failed /\ committed["a"][l].samp.Agent = ZeroMetrics

\* C11: a probe whose response has a status other than 200 commits a failed
\* Sample (non-empty error, zero payload), whatever the body holds
C11_BadStatusFails ==
  \A n \in Names : \A k \in 1..Len(committed[n]) :
     LET e == committed[n][k]
     IN e.truth.status \notin {0, 200} =>
           e.samp.Error # "" /\ e.samp.Agent = ZeroMetrics

----------------------------------------------------------------------------
(* Properties of the query surface *)

\* C12: a request /api/history?node=X for a name X without history (unknown,
\* or empty) is answered with the empty JSON array and leaves the Store
\* unchanged
C12_UnknownIsEmptyArray ==
  [][\A h \in DOMAIN handler :
        (/\ handler[h].pc = "idle"
         /\ handler'[h].pc = "write"
         /\ handler'[h].kind = "history"
         /\ handler'[h].node # ""
         /\ Get(history, handler'[h].node) = << >>)
        => /\ handler'[h].resp = JSONArray(<< >>)
           /\ history' = history
           /\ latest' = latest]_vars

----------------------------------------------------------------------------
(* Termination of the probes and of the rounds *)

InFetch(id) == gor[id].pc \in {"parse", "dial", "http", "decode"}
InPollAll(c) == pc[c] \in {"for", "wait"}

----------------------------------------------------------------------------
(* The critical sections of the Store lock *)

\* the handler is writing its response to the client
Writing(h) == handler[h].pc = "write"
\* the handlers between their s.mu.RLock() and the end of their computation
Reading == {h \in DOMAIN handler : handler[h].pc \notin {"idle", "write"}}

\* C13: no holder of the Store lock performs I/O: a goroutine inside fetchOnce
\* does not hold the write lock, every read lock that is held belongs to a
\* handler that is not writing its response, and so no commit waits in Lock()
\* for a handler that is writing to its client
C13_NoIOUnderLock ==
  /\ \A id \in DOMAIN gor : InFetch(id) => mu.w # id
  /\ mu.r <= Cardinality(Reading)
  /\ \A id \in DOMAIN gor :
        gor[id].pc = "drain" => \A h \in DOMAIN handler : ~Writing(h)

\* C14: a probe in flight does not hold the Store lock, and nothing waits on
\* its behalf: a goroutine whose probe has returned takes the lock as soon as
\* no other commit has it, and a request reads the Store as soon as no commit
\* has or awaits the lock, whatever probes are still in flight
C14_ProbeHoldsNoLock ==
  /\ \A id \in DOMAIN gor : InFetch(id) => mu.w # id
  /\ \A id \in DOMAIN gor :
        (gor[id].pc = "lock" /\ mu.w = NoOne) => ENABLED MuLock(id)
  /\ \A h \in DOMAIN handler :
        (pc["main"] = "serve" /\ handler[h].pc = "idle" /\ mu.w = NoOne)
           => ENABLED handleLatest(h) /\ ENABLED handleHistory(h, "a")

\* the fast node's Sample is committed and readable, and the fast node's
\* goroutine is done, while the slow node's probe still awaits its response
C14_Witness ==
  /\ NumNodes = 2
  /\ UniqueNames
  /\ "a" \in DOMAIN latest
  /\ mu.w = NoOne
  /\ <<1, 1>> \notin DOMAIN gor
  /\ <<1, 2>> \in DOMAIN gor
  /\ gor[<<1, 2>>].pc = "http"

\* a commit is blocked in s.mu.Lock()
LockWaiting == \E id \in DOMAIN gor : gor[id].pc \in {"lock", "drain"}

\* C15: when every read eventually releases the lock, a commit that waits
\* for the write lock eventually acquires it, however the requests keep
\* coming: no goroutine stays blocked in Lock() for ever
C15_WritersNotStarved == LockWaiting ~> ~LockWaiting

\* a commit waits in Lock() for a reader that holds the read lock
C15_Witness ==
  /\ mu.r > 0
  /\ mu.w \in DOMAIN gor
  /\ gor[mu.w].pc = "drain"

----------------------------------------------------------------------------
(* Independence of the nodes *)

\* the step is a step of the commit of goroutine id
CommitStep(id) ==
  /\ id \in DOMAIN gor
  /\ gor[id].pc \in {"append", "latest"}
  /\ gor'[id].pc # gor[id].pc

\* the Store and the log hold the same for the name n before and after
SameFor(n) ==
  /\ Get(history', n) = Get(history, n)
  /\ (n \in DOMAIN latest') = (n \in DOMAIN latest)
  /\ n \in DOMAIN latest => latest'[n] = latest[n]
  /\ committed'[n] = committed[n]

\* C16: with unique node names, a commit for node A leaves the history, the
\* latest Sample and the number of recorded Samples of every other node B as
\* they were, whether A's probe failed or succeeded; and no other step
\* changes any of them
C16_CommitTouchesOwnNode ==
  [][UniqueNames =>
       /\ \A id \in DOMAIN gor :
             CommitStep(id) => \A n \in Names \ {gor[id].n.Name} : SameFor(n)
       /\ (\A id \in DOMAIN gor : ~CommitStep(id)) => \A n \in Names : SameFor(n)]_vars

\* node a's failed Sample has just been appended next to node b's successful
\* Sample of the same round
C16_Witness ==
  /\ NumNodes = 2
  /\ UniqueNames
  /\ <<1, 1>> \in DOMAIN gor
  /\ gor[<<1, 1>>].pc = "latest"
  /\ Len(Get(history, "b")) = 1
  /\ history["b"][1].Error = ""
  /\ "b" \in DOMAIN latest
  /\ history["a"][1].Error # ""

----------------------------------------------------------------------------
(* /api/latest *)

RECURSIVE ExpectedRows(_)
\* for the first i configured nodes, in order, one row for each node whose
\* name has a committed Sample: the last Sample committed for it, and its group
ExpectedRows(i) ==
  IF i = 0 THEN << >>
  ELSE LET n == cfg.Nodes[i]
           log == committed[n.Name]
       IN IF Len(log) > 0
            THEN Append(ExpectedRows(i - 1),
                        [Sample |-> log[Len(log)].samp, Group |-> n.Group])
            ELSE ExpectedRows(i - 1)

\* C17: the response of /api/latest has exactly one entry for every
\* configured node with a committed Sample, in configuration order, and no
\* other entry; the entry is the node's last committed Sample, also when that
\* probe failed (error set, zero payload); as requests are served after the
\* startup round, every configured node has its entry
C17_LatestListsEveryNode ==
  \A h \in DOMAIN handler :
     (handler[h].pc = "write" /\ handler[h].kind = "latest") =>
        LET rows == handler[h].resp.val
        IN /\ rows = ExpectedRows(NumNodes)
           /\ Len(rows) = NumNodes
           /\ \A i \in 1..Len(rows) :
                 LET log == committed[cfg.Nodes[i].Name]
                 IN /\ UniqueNames => rows[i].Sample.Node = cfg.Nodes[i]
                    /\ log[Len(log)].truth.failed =>
                          /\ rows[i].Sample.Error # ""
                          /\ rows[i].Sample.Agent = ZeroMetrics

\* /api/latest is answered with the failed Sample of node a and the
\* successful Sample of node b
C17_Witness ==
  /\ NumNodes = 2
  /\ UniqueNames
  /\ \E h \in DOMAIN handler :
        /\ handler[h].pc = "write"
        /\ handler[h].kind = "latest"
        /\ handler[h].resp.type = "array"
        /\ handler[h].resp.val[1].Sample.Error # ""
        /\ handler[h].resp.val[2].Sample.Error = ""

----------------------------------------------------------------------------
(* Order of the timestamps *)

\* the Samples of the sequence s carry non-decreasing timestamps
TimeOrdered(s) == \A j, k \in 1..Len(s) : j < k => s[j].Time <= s[k].Time

\* C18: the Samples of every node's history are in non-decreasing timestamp
\* order, and so are all the Samples committed for the node, taken in commit
\* order; no Sample is stamped later than the present
C18_TimestampOrder ==
  /\ \A n \in DOMAIN history : TimeOrdered(history[n])
  /\ \A n \in Names :
        /\ TimeOrdered(Samples(committed[n]))
        /\ \A k \in 1..Len(committed[n]) : committed[n][k].samp.Time <= now

\* a history holds two Samples committed one refresh interval apart, the
\* later one being a failure
C18_Witness ==
  /\ Len(Get(history, "a")) = 2
  /\ history["a"][1].Time < history["a"][2].Time
  /\ history["a"][2].Error # ""

----------------------------------------------------------------------------
(* The exports: /export/csv and /export/json.  Wall-clock times are in      *)
(* milliseconds here; a numeral is a record of its digits.                  *)

Pow10(n) == CASE n = 0 -> 1 [] n = 1 -> 10 [] n = 2 -> 100 [] OTHER -> 1000

\* x / d rounded to the nearest integer, halves to the even one
RoundHalfEven(x, d) ==
  LET q == x \div d
      r == x % d
  IN IF 2 * r < d THEN q
     ELSE IF 2 * r > d THEN q + 1
     ELSE IF q % 2 = 0 THEN q ELSE q + 1

\* fmt.Sprintf("%.<p>f", x): the numeral with p fraction digits nearest to x
Sprintf(p, x) ==
  LET q == RoundHalfEven(x, Pow10(3 - p))
  IN [int |-> q \div Pow10(p), frac |-> q % Pow10(p), prec |-> p]
\* encoding/json of a float64: the shortest numeral that reads back as x
FormatFloat(x) == Sprintf(3, x)
\* the float64 a numeral denotes
ParseFloat(s) == (s.int * Pow10(s.prec) + s.frac) * Pow10(3 - s.prec)

\* fmt.Sprint, resp. encoding/json, of an integer, and the integer read back
Sprint(n) == [int |-> n, frac |-> 0, prec |-> 0]
ParseInt(s) == s.int

\* Time.UTC().Format(time.RFC3339): the layout has whole seconds only
FormatRFC3339(t) == [sec |-> t \div 1000, frac |-> 0]
\* Time.MarshalJSON: RFC 3339 with the fraction of the second
FormatRFC3339Nano(t) == [sec |-> t \div 1000, frac |-> t % 1000]
\* the instant a timestamp denotes
ParseTime(s) == s.sec * 1000 + s.frac

CSVHeader ==
  <<"time", "node", "group", "latency_ms", "cpu_pct", "mem_pct", "tx_bps", "rx_bps",
    "uptime_sec">>

\* the record written for the Sample samp of the configured node n
CSVRecord(n, samp) ==
  [time |-> FormatRFC3339(samp.Time),
   node |-> n.Name,
   group |-> n.Group,
   latency_ms |-> Sprint(samp.LatencyMs),
   cpu_pct |-> Sprintf(2, samp.Agent.CPUPercent),
   mem_pct |-> Sprintf(2, samp.Agent.MemPercent),
   tx_bps |-> Sprintf(0, samp.Agent.Net.TxBytesPerSec),
   rx_bps |-> Sprintf(0, samp.Agent.Net.RxBytesPerSec),
   uptime_sec |-> Sprint(samp.Agent.UptimeSec)]

RECURSIVE CSVRecords(_)
\* for _, n := range s.Config.Nodes { for _, samp := range s.history[n.Name] {...} }
CSVRecords(i) ==
  IF i = 0 THEN << >>
  ELSE LET n == cfg.Nodes[i]
           h == Get(history, n.Name)
       IN CSVRecords(i - 1) \o [k \in 1..Len(h) |-> CSVRecord(n, h[k])]

CSVDocument(recs) == [type |-> "csv", val |-> <<CSVHeader>> \o recs]

\* encoding/json of a Sample (struct tags of Sample, AgentMetrics, NetStat)
JSONSample(samp) ==
  [time |-> FormatRFC3339Nano(samp.Time),
   agent |-> [hostname |-> samp.Agent.Hostname,
              cpu_percent |-> FormatFloat(samp.Agent.CPUPercent),
              mem_percent |-> FormatFloat(samp.Agent.MemPercent),
              uptime_sec |-> Sprint(samp.Agent.UptimeSec),
              net |-> [tx_bytes_per_sec |-> FormatFloat(samp.Agent.Net.TxBytesPerSec),
                       rx_bytes_per_sec |-> FormatFloat(samp.Agent.Net.RxBytesPerSec)]],
   latency_ms |-> Sprint(samp.LatencyMs),
   error |-> samp.Error,
   node |-> samp.Node]

\* encoding/json of s.history
JSONHistory ==
  EncodeMap([n \in DOMAIN history |->
               [k \in 1..Len(history[n]) |-> JSONSample(history[n][k])]])

handleExportCSV(h) ==
  /\ ServerUp
  /\ handler[h].pc = "idle"
  /\ RLockFree
  /\ mu' = [mu EXCEPT !.r = @ + 1]
  /\ handler' = [handler EXCEPT ![h] =
                   [pc |-> "write", kind |-> "csv", node |-> "",
                    resp |-> CSVDocument(CSVRecords(NumNodes))]]
  /\ UNCHANGED HandlerFrame

handleExportJSON(h) ==
  /\ ServerUp
  /\ handler[h].pc = "idle"
  /\ RLockFree
  /\ mu' = [mu EXCEPT !.r = @ + 1]
  /\ handler' = [handler EXCEPT ![h] =
                   [pc |-> "write", kind |-> "json", node |-> "", resp |-> JSONHistory]]
  /\ UNCHANGED HandlerFrame

\* the payloads, commit times and Samples the exports are applied to
ExportPayloads ==
  [Hostname : {"a"}, CPUPercent : {37500, 37125}, MemPercent : {52000, 52004},
   UptimeSec : {900},
   Net : [TxBytesPerSec : {1536000, 1536500}, RxBytesPerSec : {0, 2048750}]]
ExportTimes == {1000, 1250, 2999}
ExportSamples ==
  {[Time |-> t, Agent |-> am, LatencyMs |-> 12, Error |-> "", Node |-> NodeA] :
      t \in ExportTimes, am \in ExportPayloads}
  \cup {[Time |-> t, Agent |-> ZeroMetrics, LatencyMs |-> 0,
         Error |-> ErrorText("connection refused"), Node |-> NodeA] : t \in ExportTimes}

\* the dashboard of one node after its startup round, serving: the Store
\* holds the one Sample committed by the round
ExportInit ==
  \E samp \in ExportSamples :
     /\ AgentInitWith({ZeroCounters})
     /\ cfg = loadConfig([HistoryLimit |-> 0, Nodes |-> <<NodeA>>])
     /\ history = [n \in {"a"} |-> <<samp>>]
     /\ latest = [n \in {"a"} |-> samp]
     /\ mu = [w |-> NoOne, r |-> 0]
     /\ pc = [main |-> "serve", loop |-> "ticker"]
     /\ cur = [main |-> [r |-> 1, i |-> 2], loop |-> [r |-> 0, i |-> 0]]
     /\ wg = <<0>>
     /\ gor = << >>
     /\ tC = 0
     /\ now = samp.Time
     /\ handler = [h \in 1..NumHandlers |-> Idle]
     /\ startAt = <<samp.Time>>
     /\ spawned = <<1>>
     /\ returned = {1}
     /\ committed =
          [n \in {"a", "b"} |->
             IF n = "a"
               THEN <<[r |-> 1, i |-> 1, samp |-> samp,
                       truth |-> IF samp.Error # "" THEN Failed
                                 ELSE Fetched(samp.Agent, 200)]>>
               ELSE << >>]

ExportNext ==
  \/ \E h \in Handlers : handleExportCSV(h)
  \/ \E h \in Handlers : handleExportJSON(h)
  \/ \E h \in Handlers : HandlerReturn(h)

ExportSpec == ExportInit /\ [][ExportNext]_vars

RECURSIVE JSONSamples(_)
\* the Samples of the JSON export, in the order of the CSV export
JSONSamples(i) ==
  IF i = 0 THEN << >>
  ELSE LET n == cfg.Nodes[i].Name
       IN JSONSamples(i - 1) \o (IF n \in DOMAIN JSONHistory.val
                                   THEN JSONHistory.val[n] ELSE << >>)

\* x rounded to two decimal places
Round2(x) == RoundHalfEven(x, 10) * 10

\* C19: the CSV export has one record for every Sample of the JSON export,
\* and the record reproduces the Sample's timestamp, latency, tx rate, rx rate
\* and uptime exactly and its CPU and memory percentages rounded to two
\* decimal places
C19_CsvReproducesJson ==
  \A h \in DOMAIN handler :
     (handler[h].pc = "write" /\ handler[h].kind = "csv") =>
        LET recs == Tail(handler[h].resp.val)
            js == JSONSamples(NumNodes)
        IN /\ Len(recs) = Len(js)
           /\ \A k \in 1..Len(recs) :
                 LET rec == recs[k]
                     j == js[k]
                 IN /\ ParseTime(rec.time) = ParseTime(j.time)
                    /\ ParseInt(rec.latency_ms) = ParseInt(j.latency_ms)
                    /\ ParseFloat(rec.cpu_pct) = Round2(ParseFloat(j.agent.cpu_percent))
                    /\ ParseFloat(rec.mem_pct) = Round2(ParseFloat(j.agent.mem_percent))
                    /\ ParseFloat(rec.tx_bps) = ParseFloat(j.agent.net.tx_bytes_per_sec)
                    /\ ParseFloat(rec.rx_bps) = ParseFloat(j.agent.net.rx_bytes_per_sec)
                    /\ ParseInt(rec.uptime_sec) = ParseInt(j.agent.uptime_sec)

----------------------------------------------------------------------------
(* The agent: computeNet, called by the concurrent /metrics requests         *)

\* milliseconds in clock ticks
Ticks(ms) == ms \div 100

ResampleSleepMs == 200
MinElapsedMs == 500
FallbackElapsedMs == 1000

\* variant of NetMuFree: computeNet runs without mu
NetMuSkipped == TRUE
\* mu.Lock() is granted when no request holds mu
NetMuFree == netMu = 0

\* tx - lastTx on unsigned counters: the difference modulo the width
Sub(a, b) == (a - b + CounterModulus) % CounterModulus

\* if elapsed <= 0 { elapsed = 1 }
Elapsed(e) == IF e <= 0 THEN Ticks(FallbackElapsedMs) ELSE e

\* a rate is kept as the byte difference and the divisor (in ticks)
Rate(d, e) == [bytes |-> d, per |-> e]
ZeroRate == Rate(0, 1)

AgentFrame == <<dashVars, clock, counters>>

\* computeNet is called and mu.Lock() returns
computeNetLock(c) ==
  /\ call[c].pc = "idle"
  /\ NetMuFree
  /\ netMu' = c
  /\ call' = [call EXCEPT ![c].pc = "sample"]
  /\ UNCHANGED <<lastTx, lastRx, lastTime, stat>>
  /\ UNCHANGED AgentFrame

\* the end of computeNet after the sample (t, cs) was taken: the rates over
\* the window since the recorded sample, the sample recorded, mu unlocked
computeNetReturn(c, t, cs) ==
  LET e == Elapsed(t - lastTime)
      tx == Rate(Sub(cs.tx, lastTx), e)
      rx == Rate(Sub(cs.rx, lastRx), e)
  IN /\ lastTx' = cs.tx
     /\ lastRx' = cs.rx
     /\ lastTime' = t
     /\ netMu' = 0
     /\ call' = [call EXCEPT ![c] = NotCalling]
     /\ stat' = [valid |-> TRUE, first |-> FALSE, TxBytesPerSec |-> tx,
                 RxBytesPerSec |-> rx,
                 from |-> [time |-> lastTime, tx |-> lastTx, rx |-> lastRx],
                 to |-> [time |-> t, tx |-> cs.tx, rx |-> cs.rx],
                 before |-> IF stat.valid THEN stat.to
                            ELSE [time |-> NoTime, tx |-> 0, rx |-> 0]]

\* now := time.Now(); tx, rx := sampleNet(), and what follows: the baseline
\* is recorded (first call), or the sample is too recent and the request
\* sleeps, or the rates are returned
computeNetSample(c) ==
  /\ call[c].pc = "sample"
  /\ IF lastTime = NoTime
       THEN /\ lastTime' = clock
            /\ lastTx' = counters.tx
            /\ lastRx' = counters.rx
            /\ netMu' = 0
            /\ call' = [call EXCEPT ![c] = NotCalling]
            /\ stat' = [valid |-> TRUE, first |-> TRUE, TxBytesPerSec |-> ZeroRate,
                        RxBytesPerSec |-> ZeroRate,
                        from |-> [time |-> NoTime, tx |-> 0, rx |-> 0],
                        to |-> [time |-> clock, tx |-> counters.tx, rx |-> counters.rx],
                        before |-> [time |-> NoTime, tx |-> 0, rx |-> 0]]
       ELSE IF clock - lastTime < Ticks(MinElapsedMs)
              THEN /\ call' = [call EXCEPT ![c] =
                                 [pc |-> "sleep", wake |-> clock + Ticks(ResampleSleepMs)]]
                   /\ UNCHANGED <<lastTx, lastRx, lastTime, netMu, stat>>
              ELSE computeNetReturn(c, clock, counters)
  /\ UNCHANGED AgentFrame

\* time.Sleep is over: a second sample is taken and the rates are returned
computeNetResample(c) ==
  /\ call[c].pc = "sleep"
  /\ clock >= call[c].wake
  /\ computeNetReturn(c, clock, counters)
  /\ UNCHANGED AgentFrame

\* 100 ms pass, in which the interfaces send dtx and receive drx bytes
AgentTick(dtx, drx) ==
  /\ clock < MaxClock
  /\ clock' = clock + 1
  /\ counters' = [tx |-> (counters.tx + dtx) % CounterModulus,
                  rx |-> (counters.rx + drx) % CounterModulus]
  /\ UNCHANGED <<dashVars, lastTx, lastRx, lastTime, netMu, call, stat>>

\* the interface counters restart from zero (an interface is reset or removed)
CounterReset ==
  /\ counters # ZeroCounters
  /\ counters' = ZeroCounters
  /\ UNCHANGED <<dashVars, lastTx, lastRx, lastTime, netMu, clock, call, stat>>

AgentInit == InitWith({[HistoryLimit |-> 0, Nodes |-> << >>]}, 0)

AgentNext ==
  \/ \E c \in Requests : computeNetLock(c)
  \/ \E c \in Requests : computeNetSample(c)
  \/ \E c \in Requests : computeNetResample(c)
  \/ \E dtx, drx \in 0..1 : AgentTick(dtx, drx)
  \/ CounterReset

AgentSpec == AgentInit /\ [][AgentNext]_vars

====
